---- MODULE Spec2Model ----
(***************************************************************************)
(* Team Roll Draft engine (sql/team_roll_draft.sql): the tables game_runs, *)
(* game_state and game_picks and the plpgsql functions tr_create_run,      *)
(* tr_roll_team, tr_choose_slot, tr_clear_pending_slot and tr_pick_asset.  *)
(*                                                                         *)
(* Every function runs as one transaction: a raised exception undoes the   *)
(* statements already executed.  SQL NULL is modelled by Null (id and      *)
(* bigint columns) and NullText (text columns); a plpgsql IF fires only    *)
(* when its condition is TRUE, so a comparison with NULL never fires it.   *)
(***************************************************************************)
EXTENDS Integers, FiniteSets, Sequences, Bags, TLC

VARIABLES teams, game_runs, game_state, game_picks, last, calls, lock

vars == <<teams, game_runs, game_state, game_picks, last, calls, lock>>
tables == <<game_runs, game_state, game_picks>>

\* ---------------------------------------------------------------- bounds
NumTeams == 2
RlsTeams == 2
ConcTeams == 2
LateTeams == 9
SevenTeams == 8
IsoTeams == 2

\* ------------------------------------------------------------- constants
PickTarget == 8
Season == 2025
OtherSeason == Season - 1

Null == 0
NullText == "<null>"

ALL_SLOTS == {"QB", "RB1", "RB2", "WR1", "WR2", "TE", "DST", "COACH"}
Phases == {"need_roll", "need_slot", "need_asset", "complete"}
Positions == <<"QB", "RB", "WR", "TE">>

Users == {"u1", "u2"}
Owner == "u1"
RunIds == {1, 2}
CallIds == {"c1", "c2"}
Free == "free"

\* ------------------------------------------------------- reference data
\* public.teams: id and abbr (the roster names teams by abbreviation)
AbbrOf(t) == 100 + t

TeamAbbr(t) == IF t \in teams THEN AbbrOf(t) ELSE Null

\* public.coaches: one coach per team, uuid key
CoachIdOf(t) == 200 + t

coaches == {[id |-> CoachIdOf(t), team_id |-> t] : t \in teams}

\* public.nflverse_roster_2025: one player of each position per team for
\* Season, a QB of team 1 for OtherSeason, a kicker of team 1 for Season
PlayerIdOf(t, i) == 4 * (t - 1) + i

StrayBase == 4 * Cardinality(teams)

nflverse_roster_2025 ==
  {[id |-> PlayerIdOf(t, i), season |-> Season, team |-> AbbrOf(t), position |-> Positions[i]] :
      t \in teams, i \in 1..4}
  \cup {[id |-> StrayBase + 1, season |-> OtherSeason, team |-> AbbrOf(1), position |-> "QB"],
        [id |-> StrayBase + 2, season |-> Season, team |-> AbbrOf(1), position |-> "K"]}

\* ------------------------------------------------------------ inputs
Callers == Users \cup {NullText}
SlotInputs == ALL_SLOTS \cup {"FLEX", NullText}
AssetTypeInputs == {"player", "dst", "coach", NullText}
AssetIdInputs == {Null} \cup {r.id : r \in nflverse_roster_2025} \cup {StrayBase + 3}

\* ------------------------------------------------------------ helpers
\* a <> b is TRUE (not NULL, not FALSE)
NeTrue(a, b) == a # NullText /\ b # NullText /\ a # b

\* x not in (...) is TRUE
NotInTrue(x, S) == x # NullText /\ x \notin S

PicksOfRun(p_run_id) == {gp \in BagToSet(game_picks) : gp.run_id = p_run_id}

\* select count(*) from game_picks where run_id = p_run_id, on table picks
PickCount(picks, p_run_id) ==
  LET rows == {gp \in BagToSet(picks) : gp.run_id = p_run_id}
  IN  BagCardinality([gp \in rows |-> picks[gp]])

\* the exists test looks at no row
SlotFilled_Never(p_run_id, s) == \E gp \in {} : gp.slot = s

SlotFilled(p_run_id, s) == \E gp \in PicksOfRun(p_run_id) : gp.slot = s

\* the exists test without "gp.run_id = p_run_id"
TeamUsed_AnyRun(p_run_id, t) == \E gp \in BagToSet(game_picks) : gp.team_id = t

TeamUsed(p_run_id, t) == \E gp \in PicksOfRun(p_run_id) : gp.team_id = t

OwnsRun(uid, p_run_id) ==
  p_run_id \in DOMAIN game_runs /\ game_runs[p_run_id].user_id = uid

\* gen_random_uuid(): a key no row has
NewRunId == Cardinality(DOMAIN game_runs) + 1

\* the row of game_state read by "select ... for update"
NoRow ==
  [found |-> FALSE, phase |-> NullText, current_team_id |-> Null, pending_slot |-> NullText]

StateRow(p_run_id) ==
  IF p_run_id \in DOMAIN game_state
    THEN [found |-> TRUE,
          phase |-> game_state[p_run_id].phase,
          current_team_id |-> game_state[p_run_id].current_team_id,
          pending_slot |-> game_state[p_run_id].pending_slot]
    ELSE NoRow

\* update public.game_state set ... where run_id = p_run_id
UpdateState(p_run_id, phase, team, slot) ==
  IF p_run_id \in DOMAIN game_state
    THEN [game_state EXCEPT ![p_run_id] =
            [phase |-> phase, current_team_id |-> team, pending_slot |-> slot]]
    ELSE game_state

\* outcome of a call: the tables it leaves and what it returns
Commit(runs, state, picks, ret) ==
  [err |-> "ok", runs |-> runs, state |-> state, picks |-> picks, ret |-> ret]

\* raise exception: the transaction is rolled back
Raise(msg) ==
  [err |-> msg, runs |-> game_runs, state |-> game_state, picks |-> game_picks, ret |-> Null]

\* cast of a bigint to uuid: PostgreSQL has no such cast
CastBigintToUuid(x) == [ok |-> FALSE, value |-> Null]

\* ------------------------------------------------- game_picks constraints
PickRow(p_run_id, slot, team, type, player, coach) ==
  [run_id |-> p_run_id, slot |-> slot, team_id |-> team, asset_type |-> type,
   player_id |-> player, coach_id |-> coach]

\* check (asset_type/player_id/coach_id) and check (slot in ...)
PickShapeOk(row) ==
  /\ row.slot \in ALL_SLOTS
  /\ \/ row.asset_type = "player" /\ row.player_id # Null /\ row.coach_id = Null
     \/ row.asset_type = "coach" /\ row.coach_id # Null /\ row.player_id = Null
     \/ row.asset_type = "dst" /\ row.player_id = Null /\ row.coach_id = Null

\* references to game_runs, teams, nflverse_roster_2025 and coaches
PickRefsOk(row) ==
  /\ row.run_id \in DOMAIN game_runs
  /\ row.team_id \in teams
  /\ row.player_id = Null \/ \E r \in nflverse_roster_2025 : r.id = row.player_id
  /\ row.coach_id = Null \/ \E c \in coaches : c.id = row.coach_id

\* the table without its two unique constraints
UniqueViolation_None(row) == FALSE

\* unique (run_id, slot) and unique (run_id, team_id)
UniqueViolation(row) ==
  \E gp \in BagToSet(game_picks) :
     gp.run_id = row.run_id /\ (gp.slot = row.slot \/ gp.team_id = row.team_id)

\* insert into public.game_picks: the new table, or the violated constraint
InsertPick(row) ==
  IF ~PickShapeOk(row) THEN [err |-> "CheckViolation", picks |-> game_picks]
  ELSE IF ~PickRefsOk(row) THEN [err |-> "ForeignKeyViolation", picks |-> game_picks]
  ELSE IF UniqueViolation(row) THEN [err |-> "UniqueViolation", picks |-> game_picks]
  ELSE [err |-> "ok", picks |-> game_picks (+) SetToBag({row})]

\* --------------------------------------------------------- tr_create_run
\* game_runs without unique (user_id, season)
tr_create_run_NoUnique(uid, p_season) ==
  IF uid = NullText THEN Raise("NotAuthenticated")
  ELSE LET v_run_id == NewRunId IN
       Commit((v_run_id :> [user_id |-> uid, season |-> p_season, status |-> "active"])
                 @@ game_runs,
              (v_run_id :> [phase |-> "need_roll", current_team_id |-> Null,
                            pending_slot |-> NullText]) @@ game_state,
              game_picks, v_run_id)

tr_create_run(uid, p_season) ==
  IF uid = NullText THEN Raise("NotAuthenticated")
  ELSE IF \E id \in DOMAIN game_runs :
             game_runs[id].user_id = uid /\ game_runs[id].season = p_season
    THEN Raise("DuplicateRun")
  ELSE LET v_run_id == NewRunId IN
       Commit((v_run_id :> [user_id |-> uid, season |-> p_season, status |-> "active"])
                 @@ game_runs,
              (v_run_id :> [phase |-> "need_roll", current_team_id |-> Null,
                            pending_slot |-> NullText]) @@ game_state,
              game_picks, v_run_id)

\* ---------------------------------------------------------- tr_roll_team
\* statements before the row lock
roll_team_checks(uid, p_run_id) ==
  IF uid = NullText THEN "NotAuthenticated"
  ELSE IF ~OwnsRun(uid, p_run_id) THEN "NotFound"
  ELSE "ok"

\* the "not exists" filter left out: every team can be rolled
EligibleTeams_All(p_run_id) == teams

\* teams with no pick in the run
EligibleTeams(p_run_id) == {t \in teams : ~TeamUsed(p_run_id, t)}

\* "order by t.id limit 1": the eligible team with the lowest id
RollChoices_LowestId(p_run_id) ==
  IF EligibleTeams(p_run_id) = {} THEN {Null}
  ELSE {t \in EligibleTeams(p_run_id) : \A u \in EligibleTeams(p_run_id) : t <= u}

\* order by random() limit 1: any eligible team, NULL when there is none
RollChoices(p_run_id) ==
  IF EligibleTeams(p_run_id) = {} THEN {Null} ELSE EligibleTeams(p_run_id)

\* the phase test written as "in ('need_slot', 'need_asset')"
roll_team_locked_SealedOpen(p_run_id, v, v_team_id) ==
  IF ~v.found THEN Raise("StateNotFound")
  ELSE IF v.phase \in {"need_slot", "need_asset"} THEN Raise("InvalidPhase")
  ELSE IF v_team_id = Null THEN Raise("NoTeamsRemaining")
  ELSE Commit(game_runs, UpdateState(p_run_id, "need_slot", v_team_id, NullText),
              game_picks, v_team_id)

\* the "v_team_id is null" test left out
roll_team_locked_NoDefence(p_run_id, v, v_team_id) ==
  IF ~v.found THEN Raise("StateNotFound")
  ELSE IF NeTrue(v.phase, "need_roll") THEN Raise("InvalidPhase")
  ELSE Commit(game_runs, UpdateState(p_run_id, "need_slot", v_team_id, NullText),
              game_picks, v_team_id)

\* statements after "select ... for update" returned row v
roll_team_locked(p_run_id, v, v_team_id) ==
  IF ~v.found THEN Raise("StateNotFound")
  ELSE IF NeTrue(v.phase, "need_roll") THEN Raise("InvalidPhase")
  ELSE IF v_team_id = Null THEN Raise("NoTeamsRemaining")
  ELSE Commit(game_runs, UpdateState(p_run_id, "need_slot", v_team_id, NullText),
              game_picks, v_team_id)

tr_roll_team(uid, p_run_id, v_team_id) ==
  IF roll_team_checks(uid, p_run_id) # "ok" THEN Raise(roll_team_checks(uid, p_run_id))
  ELSE roll_team_locked(p_run_id, StateRow(p_run_id), v_team_id)

\* -------------------------------------------------------- tr_choose_slot
\* the ownership test left out
choose_slot_checks_NoOwner(uid, p_run_id, p_slot) ==
  IF uid = NullText THEN "NotAuthenticated"
  ELSE IF NotInTrue(p_slot, ALL_SLOTS) THEN "InvalidSlot"
  ELSE "ok"

choose_slot_checks(uid, p_run_id, p_slot) ==
  IF uid = NullText THEN "NotAuthenticated"
  ELSE IF NotInTrue(p_slot, ALL_SLOTS) THEN "InvalidSlot"
  ELSE IF ~OwnsRun(uid, p_run_id) THEN "NotFound"
  ELSE "ok"

\* the phase test also lets need_asset through
choose_slot_locked_Replace(p_run_id, p_slot, v) ==
  IF NotInTrue(v.phase, {"need_slot", "need_asset"}) THEN Raise("InvalidPhase")
  ELSE IF v.current_team_id = Null THEN Raise("NoCurrentTeam")
  ELSE IF SlotFilled(p_run_id, p_slot) THEN Raise("SlotAlreadyFilled")
  ELSE Commit(game_runs, UpdateState(p_run_id, "need_asset", v.current_team_id, p_slot),
              game_picks, Null)

choose_slot_locked(p_run_id, p_slot, v) ==
  IF NeTrue(v.phase, "need_slot") THEN Raise("InvalidPhase")
  ELSE IF v.current_team_id = Null THEN Raise("NoCurrentTeam")
  ELSE IF SlotFilled(p_run_id, p_slot) THEN Raise("SlotAlreadyFilled")
  ELSE Commit(game_runs, UpdateState(p_run_id, "need_asset", v.current_team_id, p_slot),
              game_picks, Null)

tr_choose_slot(uid, p_run_id, p_slot) ==
  IF choose_slot_checks(uid, p_run_id, p_slot) # "ok"
    THEN Raise(choose_slot_checks(uid, p_run_id, p_slot))
  ELSE choose_slot_locked(p_run_id, p_slot, StateRow(p_run_id))

\* ------------------------------------------------- tr_clear_pending_slot
clear_pending_slot_checks(uid, p_run_id) ==
  IF uid = NullText THEN "NotAuthenticated"
  ELSE IF ~OwnsRun(uid, p_run_id) THEN "NotFound"
  ELSE "ok"

\* the cycle is abandoned: back to need_roll without the team
clear_pending_slot_locked_Reroll(p_run_id, v) ==
  IF v.current_team_id = Null THEN Raise("NoCurrentTeam")
  ELSE IF NotInTrue(v.phase, {"need_slot", "need_asset"}) THEN Raise("InvalidPhase")
  ELSE Commit(game_runs, UpdateState(p_run_id, "need_roll", Null, NullText),
              game_picks, Null)

\* the update also clears current_team_id
clear_pending_slot_locked_DropTeam(p_run_id, v) ==
  IF v.current_team_id = Null THEN Raise("NoCurrentTeam")
  ELSE IF NotInTrue(v.phase, {"need_slot", "need_asset"}) THEN Raise("InvalidPhase")
  ELSE Commit(game_runs, UpdateState(p_run_id, "need_slot", Null, NullText),
              game_picks, Null)

clear_pending_slot_locked(p_run_id, v) ==
  IF v.current_team_id = Null THEN Raise("NoCurrentTeam")
  ELSE IF NotInTrue(v.phase, {"need_slot", "need_asset"}) THEN Raise("InvalidPhase")
  ELSE Commit(game_runs, UpdateState(p_run_id, "need_slot", v.current_team_id, NullText),
              game_picks, Null)

tr_clear_pending_slot(uid, p_run_id) ==
  IF clear_pending_slot_checks(uid, p_run_id) # "ok"
    THEN Raise(clear_pending_slot_checks(uid, p_run_id))
  ELSE clear_pending_slot_locked(p_run_id, StateRow(p_run_id))

\* --------------------------------------------------------- tr_pick_asset
\* statements before the row lock: v_season, NULL when the caller has no such run
pick_asset_season(uid, p_run_id) ==
  IF OwnsRun(uid, p_run_id) THEN game_runs[p_run_id].season ELSE Null

pick_asset_checks(uid, p_run_id) ==
  IF uid = NullText THEN "NotAuthenticated"
  ELSE IF pick_asset_season(uid, p_run_id) = Null THEN "NotFound"
  ELSE "ok"

\* the lookup without "and r.season = v_season"
PlayerPosition_AnySeason(p_asset_id, v_team_abbr, v_season) ==
  LET rows == {r \in nflverse_roster_2025 :
                 r.id = p_asset_id /\ r.team = v_team_abbr}
  IN  IF rows = {} THEN NullText ELSE (CHOOSE r \in rows : TRUE).position

\* select r.position ... where id, team and season match; NULL when no row
PlayerPosition(p_asset_id, v_team_abbr, v_season) ==
  LET rows == {r \in nflverse_roster_2025 :
                 r.id = p_asset_id /\ r.team = v_team_abbr /\ r.season = v_season}
  IN  IF rows = {} THEN NullText ELSE (CHOOSE r \in rows : TRUE).position

\* the ordinal is compared, not the position: only RB1 and WR1 are tested
PositionRejected_FirstOrdinalOnly(v_pending_slot, v_player_position) ==
  IF v_pending_slot \in {"RB1"} /\ v_player_position # "RB" THEN TRUE
  ELSE IF v_pending_slot \in {"WR1"} /\ v_player_position # "WR" THEN TRUE
  ELSE IF v_pending_slot = "QB" /\ v_player_position # "QB" THEN TRUE
  ELSE IF v_pending_slot = "TE" /\ v_player_position # "TE" THEN TRUE
  ELSE FALSE

\* the slot's position test raises
PositionRejected(v_pending_slot, v_player_position) ==
  IF v_pending_slot \in {"RB1", "RB2"} /\ v_player_position # "RB" THEN TRUE
  ELSE IF v_pending_slot \in {"WR1", "WR2"} /\ v_player_position # "WR" THEN TRUE
  ELSE IF v_pending_slot = "QB" /\ v_player_position # "QB" THEN TRUE
  ELSE IF v_pending_slot = "TE" /\ v_player_position # "TE" THEN TRUE
  ELSE FALSE

\* "> 8" written for ">= 8"
RunIsFull_OffByOne(v_pick_count) == v_pick_count > PickTarget

\* if v_pick_count >= 8
RunIsFull(v_pick_count) == v_pick_count >= PickTarget

\* the else branch left out: an unfinished run keeps its phase after a pick
pick_asset_finish_NoReset(p_run_id, picks) ==
  IF RunIsFull(PickCount(picks, p_run_id))
    THEN Commit([game_runs EXCEPT ![p_run_id].status = "complete"],
                UpdateState(p_run_id, "complete", Null, NullText), picks, Null)
    ELSE Commit(game_runs, game_state, picks, Null)

\* the else branch resets the phase but keeps the rolled team
pick_asset_finish_KeepTeam(p_run_id, picks) ==
  IF RunIsFull(PickCount(picks, p_run_id))
    THEN Commit([game_runs EXCEPT ![p_run_id].status = "complete"],
                UpdateState(p_run_id, "complete", Null, NullText), picks, Null)
    ELSE Commit(game_runs,
                UpdateState(p_run_id, "need_roll", StateRow(p_run_id).current_team_id, NullText),
                picks, Null)

\* count the picks, then seal the run or open the next cycle
pick_asset_finish(p_run_id, picks) ==
  IF RunIsFull(PickCount(picks, p_run_id))
    THEN Commit([game_runs EXCEPT ![p_run_id].status = "complete"],
                UpdateState(p_run_id, "complete", Null, NullText), picks, Null)
    ELSE Commit(game_runs, UpdateState(p_run_id, "need_roll", Null, NullText), picks, Null)

pick_asset_insert(p_run_id, row) ==
  IF InsertPick(row).err # "ok" THEN Raise(InsertPick(row).err)
  ELSE pick_asset_finish(p_run_id, InsertPick(row).picks)

\* the DST branch is never entered: a DST slot is served by the player branch
pick_asset_locked_NoDstBranch(p_run_id, p_asset_type, p_asset_id, v, v_season) ==
  LET v_pending_slot == v.pending_slot
      v_current_team == v.current_team_id
      v_team_abbr == TeamAbbr(v_current_team)
      v_player_position == PlayerPosition(p_asset_id, v_team_abbr, v_season)
      v_coach == CastBigintToUuid(p_asset_id)
  IN
  IF NeTrue(v.phase, "need_asset") THEN Raise("InvalidPhase")
  ELSE IF v_pending_slot = NullText \/ v_current_team = Null THEN Raise("IncompleteState")
  ELSE IF SlotFilled(p_run_id, v_pending_slot) THEN Raise("SlotAlreadyFilled")
  ELSE IF TeamUsed(p_run_id, v_current_team) THEN Raise("TeamAlreadyUsed")
  ELSE IF v_team_abbr = Null THEN Raise("TeamNotFound")
  ELSE IF v_pending_slot = "DEF" THEN
    IF NeTrue(p_asset_type, "dst") \/ p_asset_id # Null THEN Raise("DstShape")
    ELSE pick_asset_insert(p_run_id,
           PickRow(p_run_id, v_pending_slot, v_current_team, "dst", Null, Null))
  ELSE IF v_pending_slot = "COACH" THEN
    IF NeTrue(p_asset_type, "coach") \/ p_asset_id = Null THEN Raise("CoachShape")
    ELSE IF ~v_coach.ok THEN Raise("CannotCast")
    ELSE IF ~\E c \in coaches : c.id = v_coach.value /\ c.team_id = v_current_team
      THEN Raise("AssetTeamMismatch")
    ELSE pick_asset_insert(p_run_id,
           PickRow(p_run_id, v_pending_slot, v_current_team, "coach", Null, v_coach.value))
  ELSE
    IF NeTrue(p_asset_type, "player") \/ p_asset_id = Null THEN Raise("PlayerShape")
    ELSE IF v_player_position = NullText THEN Raise("AssetTeamMismatch")
    ELSE IF PositionRejected(v_pending_slot, v_player_position)
      THEN Raise("AssetPositionMismatch")
    ELSE pick_asset_insert(p_run_id,
           PickRow(p_run_id, v_pending_slot, v_current_team, "player", p_asset_id, Null))

\* statements after "select ... for update" returned row v
pick_asset_locked(p_run_id, p_asset_type, p_asset_id, v, v_season) ==
  LET v_pending_slot == v.pending_slot
      v_current_team == v.current_team_id
      v_team_abbr == TeamAbbr(v_current_team)
      v_player_position == PlayerPosition(p_asset_id, v_team_abbr, v_season)
      v_coach == CastBigintToUuid(p_asset_id)
  IN
  IF NeTrue(v.phase, "need_asset") THEN Raise("InvalidPhase")
  ELSE IF v_pending_slot = NullText \/ v_current_team = Null THEN Raise("IncompleteState")
  ELSE IF SlotFilled(p_run_id, v_pending_slot) THEN Raise("SlotAlreadyFilled")
  ELSE IF TeamUsed(p_run_id, v_current_team) THEN Raise("TeamAlreadyUsed")
  ELSE IF v_team_abbr = Null THEN Raise("TeamNotFound")
  ELSE IF v_pending_slot = "DST" THEN
    IF NeTrue(p_asset_type, "dst") \/ p_asset_id # Null THEN Raise("DstShape")
    ELSE pick_asset_insert(p_run_id,
           PickRow(p_run_id, v_pending_slot, v_current_team, "dst", Null, Null))
  ELSE IF v_pending_slot = "COACH" THEN
    IF NeTrue(p_asset_type, "coach") \/ p_asset_id = Null THEN Raise("CoachShape")
    ELSE IF ~v_coach.ok THEN Raise("CannotCast")
    ELSE IF ~\E c \in coaches : c.id = v_coach.value /\ c.team_id = v_current_team
      THEN Raise("AssetTeamMismatch")
    ELSE pick_asset_insert(p_run_id,
           PickRow(p_run_id, v_pending_slot, v_current_team, "coach", Null, v_coach.value))
  ELSE
    IF NeTrue(p_asset_type, "player") \/ p_asset_id = Null THEN Raise("PlayerShape")
    ELSE IF v_player_position = NullText THEN Raise("AssetTeamMismatch")
    ELSE IF PositionRejected(v_pending_slot, v_player_position)
      THEN Raise("AssetPositionMismatch")
    ELSE pick_asset_insert(p_run_id,
           PickRow(p_run_id, v_pending_slot, v_current_team, "player", p_asset_id, Null))

tr_pick_asset(uid, p_run_id, p_asset_type, p_asset_id) ==
  IF pick_asset_checks(uid, p_run_id) # "ok" THEN Raise(pick_asset_checks(uid, p_run_id))
  ELSE pick_asset_locked(p_run_id, p_asset_type, p_asset_id, StateRow(p_run_id),
                         pick_asset_season(uid, p_run_id))

\* ------------------------------------------------- calls, one at a time
Idle ==
  [pc |-> "idle", op |-> "none", uid |-> NullText, run |-> Null, slot |-> NullText,
   atype |-> NullText, aid |-> Null, season |-> Null, v |-> NoRow,
   err |-> "ok", ret |-> Null, phase0 |-> NullText, with |-> {}]

NoCall == [op |-> "none", run |-> Null, err |-> "ok", ret |-> Null]

\* the call's transaction ends: its outcome r is what the tables become
Apply(op, p_run_id, r) ==
  /\ game_runs' = r.runs
  /\ game_state' = r.state
  /\ game_picks' = r.picks
  /\ last' = [op |-> op, run |-> p_run_id, err |-> r.err, ret |-> r.ret]
  /\ UNCHANGED <<teams, calls, lock>>

StartCallers == {Owner, NullText}

\* who calls on which run: the owner on the run and on a run id that does
\* not exist, another user and an unauthenticated caller on the owner's run
Principals == {<<Owner, 1>>, <<Owner, 2>>, <<"u2", 1>>, <<NullText, 1>>}

\* arguments tried by a caller: the owner on the run tries them all
SlotsTried(who) == IF who = <<Owner, 1>> THEN SlotInputs ELSE {"QB", "FLEX"}

\* the asset type matters only through "<> 'player'", "<> 'dst'" and
\* "<> 'coach'": every id is tried as a player, three ids under the others
AssetsTried(who) ==
  IF who = <<Owner, 1>>
    THEN ({"player"} \X AssetIdInputs)
         \cup ((AssetTypeInputs \ {"player"}) \X {Null, PlayerIdOf(1, 1), StrayBase + 3})
    ELSE {<<"dst", Null>>}

CreateRun ==
  \E uid \in StartCallers : Apply("create_run", Null, tr_create_run(uid, Season))

RollTeam ==
  \E who \in Principals :
    \E v_team_id \in RollChoices(who[2]) :
      Apply("roll_team", who[2], tr_roll_team(who[1], who[2], v_team_id))

ChooseSlot ==
  \E who \in Principals :
    \E p_slot \in SlotsTried(who) :
      Apply("choose_slot", who[2], tr_choose_slot(who[1], who[2], p_slot))

ClearPendingSlot ==
  \E who \in Principals :
    Apply("clear_pending_slot", who[2], tr_clear_pending_slot(who[1], who[2]))

PickAsset ==
  \E who \in Principals :
    \E a \in AssetsTried(who) :
      Apply("pick_asset", who[2], tr_pick_asset(who[1], who[2], a[1], a[2]))

Init ==
  /\ teams = 1..NumTeams
  /\ game_runs = <<>>
  /\ game_state = <<>>
  /\ game_picks = EmptyBag
  /\ last = NoCall
  /\ calls = [p \in CallIds |-> Idle]
  /\ lock = [r \in RunIds |-> Free]

\* a run six picks in, with TE and DST still free: the COACH row was
\* written by the run's owner under policy game_picks_write_own (the engine
\* cannot store a coach, see CastBigintToUuid), the player rows by
\* tr_pick_asset
LatePicks ==
  SetToBag({PickRow(1, "COACH", 1, "coach", Null, CoachIdOf(1)),
            PickRow(1, "QB", 2, "player", PlayerIdOf(2, 1), Null),
            PickRow(1, "RB1", 3, "player", PlayerIdOf(3, 2), Null),
            PickRow(1, "RB2", 4, "player", PlayerIdOf(4, 2), Null),
            PickRow(1, "WR1", 5, "player", PlayerIdOf(5, 3), Null),
            PickRow(1, "WR2", 6, "player", PlayerIdOf(6, 3), Null)})

InitLate ==
  /\ teams = 1..LateTeams
  /\ game_runs = (1 :> [user_id |-> Owner, season |-> Season, status |-> "active"])
  /\ game_state = (1 :> [phase |-> "need_roll", current_team_id |-> Null,
                         pending_slot |-> NullText])
  /\ game_picks = LatePicks
  /\ last = NoCall
  /\ calls = [p \in CallIds |-> Idle]
  /\ lock = [r \in RunIds |-> Free]

InitAny == Init \/ InitLate

\* policy game_picks_write_own: the caller owns the row's run
PicksWriteOwn(uid, row) == OwnsRun(uid, row.run_id)

\* rows written to game_picks directly, not through tr_pick_asset
DirectRows ==
  {PickRow(1, "COACH", t, "coach", Null, CoachIdOf(t)) : t \in teams}
  \cup {PickRow(1, "DST", t, "dst", Null, Null) : t \in teams}

\* insert into game_picks by an authenticated user, subject to the policy
\* and the table's constraints
insert_pick(uid, row) ==
  IF ~PicksWriteOwn(uid, row) THEN Raise("PolicyViolation")
  ELSE IF InsertPick(row).err # "ok" THEN Raise(InsertPick(row).err)
  ELSE Commit(game_runs, game_state, InsertPick(row).picks, Null)

DirectInsertPick ==
  \E uid \in Users, row \in DirectRows :
    Apply("insert_pick", row.run_id, insert_pick(uid, row))

Next == CreateRun \/ RollTeam \/ ChooseSlot \/ ClearPendingSlot \/ PickAsset

Spec == Init /\ [][Next]_vars

\* the engine's calls and the owner's direct inserts into game_picks
NextRls == Next \/ DirectInsertPick

InitRls ==
  /\ teams = 1..RlsTeams
  /\ game_runs = <<>>
  /\ game_state = <<>>
  /\ game_picks = EmptyBag
  /\ last = NoCall
  /\ calls = [p \in CallIds |-> Idle]
  /\ lock = [r \in RunIds |-> Free]

SpecRls == InitRls /\ [][NextRls]_vars

\* the same calls, from a fresh database and from a run six picks in
SpecLate == InitAny /\ [][Next]_vars

TypeOk ==
  /\ \A id \in DOMAIN game_state : game_state[id].phase \in Phases
  /\ DOMAIN game_state = DOMAIN game_runs

\* ------------------------------------------- calls running concurrently
\* Each call is a transaction under READ COMMITTED.  It runs its statements
\* up to "select ... for update" (Invoke), waits for the row lock of its
\* run's game_state row and reads the row (AcquireLock), then runs the rest
\* and ends, which releases the lock (Finish).  The caller takes the
\* outcome (Return).
ConcCalls ==
  {[op |-> "roll_team", slot |-> NullText, atype |-> NullText, aid |-> Null],
   [op |-> "clear_pending_slot", slot |-> NullText, atype |-> NullText, aid |-> Null],
   [op |-> "pick_asset", slot |-> NullText, atype |-> "dst", aid |-> Null],
   [op |-> "pick_asset", slot |-> NullText, atype |-> "player", aid |-> PlayerIdOf(1, 1)],
   [op |-> "pick_asset", slot |-> NullText, atype |-> "player", aid |-> PlayerIdOf(2, 1)]}
  \cup {[op |-> "choose_slot", slot |-> sl, atype |-> NullText, aid |-> Null] :
          sl \in {"QB", "DST", "FLEX"}}

\* the statements of call c before the row lock
ChecksOf(c) ==
  IF c.op = "roll_team" THEN roll_team_checks(c.uid, c.run)
  ELSE IF c.op = "choose_slot" THEN choose_slot_checks(c.uid, c.run, c.slot)
  ELSE IF c.op = "clear_pending_slot" THEN clear_pending_slot_checks(c.uid, c.run)
  ELSE pick_asset_checks(c.uid, c.run)

\* the statements of call c after the row lock, with the locals it holds
LockedOf(c, v_team_id) ==
  IF c.op = "roll_team" THEN roll_team_locked(c.run, c.v, v_team_id)
  ELSE IF c.op = "choose_slot" THEN choose_slot_locked(c.run, c.slot, c.v)
  ELSE IF c.op = "clear_pending_slot" THEN clear_pending_slot_locked(c.run, c.v)
  ELSE pick_asset_locked(c.run, c.atype, c.aid, c.v, c.season)

\* the whole function of call c, run alone on the tables as they are
AloneOf(c, v_team_id) ==
  IF c.op = "roll_team" THEN tr_roll_team(c.uid, c.run, v_team_id)
  ELSE IF c.op = "choose_slot" THEN tr_choose_slot(c.uid, c.run, c.slot)
  ELSE IF c.op = "clear_pending_slot" THEN tr_clear_pending_slot(c.uid, c.run)
  ELSE tr_pick_asset(c.uid, c.run, c.atype, c.aid)

\* what order by random() can return to call c
ChoicesOf(c) == IF c.op = "roll_team" THEN RollChoices(c.run) ELSE {Null}

InFlight == {q \in CallIds : calls[q].pc \in {"waiting", "locked", "inserting"}}

Invoke(p) ==
  /\ calls[p].pc = "idle"
  /\ \E i \in ConcCalls :
       LET c == [Idle EXCEPT !.op = i.op, !.uid = Owner, !.run = 1, !.slot = i.slot,
                             !.atype = i.atype, !.aid = i.aid,
                             !.season = pick_asset_season(Owner, 1),
                             !.phase0 = StateRow(1).phase]
       IN  IF ChecksOf(c) # "ok"
             THEN calls' = [calls EXCEPT ![p] = [c EXCEPT !.pc = "done", !.err = ChecksOf(c)]]
             ELSE calls' = [q \in CallIds |->
                              IF q = p THEN [c EXCEPT !.pc = "waiting", !.with = InFlight]
                              ELSE IF q \in InFlight
                                THEN [calls[q] EXCEPT !.with = @ \cup {p}]
                              ELSE calls[q]]
  /\ UNCHANGED <<teams, game_runs, game_state, game_picks, last, lock>>

\* the row lock of "for update" is granted when no transaction holds it
RowLockFree_NoForUpdate(p_run_id) == TRUE

RowLockFree(p_run_id) == lock[p_run_id] = Free

AcquireLock(p) ==
  /\ calls[p].pc = "waiting"
  /\ RowLockFree(calls[p].run)
  /\ calls' = [calls EXCEPT ![p].pc = "locked", ![p].v = StateRow(calls[p].run)]
  /\ lock' = [lock EXCEPT ![calls[p].run] = IF StateRow(calls[p].run).found THEN p ELSE @]
  /\ UNCHANGED <<teams, game_runs, game_state, game_picks, last>>

Finish(p) ==
  /\ calls[p].pc = "locked"
  /\ \E v_team_id \in ChoicesOf(calls[p]) :
       LET r == LockedOf(calls[p], v_team_id) IN
       /\ game_runs' = r.runs
       /\ game_state' = r.state
       /\ game_picks' = r.picks
       /\ calls' = [calls EXCEPT ![p].pc = "done", ![p].err = r.err, ![p].ret = r.ret]
  /\ lock' = [lock EXCEPT ![calls[p].run] = IF @ = p THEN Free ELSE @]
  /\ UNCHANGED <<teams, last>>

Return(p) ==
  /\ calls[p].pc = "done"
  /\ calls' = [q \in CallIds |->
                 IF q = p THEN Idle ELSE [calls[q] EXCEPT !.with = @ \ {p}]]
  /\ UNCHANGED <<teams, game_runs, game_state, game_picks, last, lock>>

StartRun == Apply("create_run", Null, tr_create_run(Owner, Season))

\* tr_create_run as a call in flight: it takes no row lock; its insert into
\* game_runs waits for a concurrent insert of the same (user_id, season) to
\* end, so the two inserts take effect one after the other
InvokeCreate(p) ==
  /\ calls[p].pc = "idle"
  /\ calls' = [q \in CallIds |->
                 IF q = p
                   THEN [Idle EXCEPT !.pc = "inserting", !.op = "create_run", !.uid = Owner,
                                     !.season = Season, !.phase0 = StateRow(1).phase,
                                     !.with = InFlight]
                 ELSE IF q \in InFlight THEN [calls[q] EXCEPT !.with = @ \cup {p}]
                 ELSE calls[q]]
  /\ UNCHANGED <<teams, game_runs, game_state, game_picks, last, lock>>

FinishCreate(p) ==
  /\ calls[p].pc = "inserting"
  /\ LET r == tr_create_run(calls[p].uid, calls[p].season) IN
       /\ game_runs' = r.runs
       /\ game_state' = r.state
       /\ game_picks' = r.picks
       /\ calls' = [calls EXCEPT ![p].pc = "done", ![p].err = r.err, ![p].ret = r.ret]
  /\ UNCHANGED <<teams, last, lock>>

InitConc ==
  /\ teams = 1..ConcTeams
  /\ game_runs = <<>>
  /\ game_state = <<>>
  /\ game_picks = EmptyBag
  /\ last = NoCall
  /\ calls = [p \in CallIds |-> Idle]
  /\ lock = [r \in RunIds |-> Free]

NextConc ==
  \/ StartRun
  \/ \E p \in CallIds : Invoke(p)
  \/ \E p \in CallIds : AcquireLock(p)
  \/ \E p \in CallIds : Finish(p)
  \/ \E p \in CallIds : Return(p)
  \/ \E p \in CallIds : InvokeCreate(p)
  \/ \E p \in CallIds : FinishCreate(p)

SpecConc == InitConc /\ [][NextConc]_vars

\* ------------------------------------------------ a run seven picks in
\* seven cycles of the engine have filled every slot but COACH
SevenPicks ==
  SetToBag({PickRow(1, "QB", 1, "player", PlayerIdOf(1, 1), Null),
            PickRow(1, "RB1", 2, "player", PlayerIdOf(2, 2), Null),
            PickRow(1, "RB2", 3, "player", PlayerIdOf(3, 2), Null),
            PickRow(1, "WR1", 4, "player", PlayerIdOf(4, 3), Null),
            PickRow(1, "WR2", 5, "player", PlayerIdOf(5, 3), Null),
            PickRow(1, "TE", 6, "player", PlayerIdOf(6, 4), Null),
            PickRow(1, "DST", 7, "dst", Null, Null)})

InitSeven ==
  /\ teams = 1..SevenTeams
  /\ game_runs = (1 :> [user_id |-> Owner, season |-> Season, status |-> "active"])
  /\ game_state = (1 :> [phase |-> "need_roll", current_team_id |-> Null,
                         pending_slot |-> NullText])
  /\ game_picks = SevenPicks
  /\ last = NoCall
  /\ calls = [p \in CallIds |-> Idle]
  /\ lock = [r \in RunIds |-> Free]

\* the engine's calls on a fresh database and on the run seven picks in
SpecSeven == (Init \/ InitSeven) /\ [][Next]_vars

\* --------------------------------------------------- two runs side by side
\* the calls made on the two runs: the QB cycle of team 1
IsoCalls ==
  {[op |-> "roll_team", slot |-> NullText, atype |-> NullText, aid |-> Null],
   [op |-> "choose_slot", slot |-> "QB", atype |-> NullText, aid |-> Null],
   [op |-> "pick_asset", slot |-> NullText, atype |-> "player", aid |-> PlayerIdOf(1, 1)]}

\* call i by the owner of run id
CallOn(id, i) ==
  [Idle EXCEPT !.op = i.op, !.uid = game_runs[id].user_id, !.run = id, !.slot = i.slot,
               !.atype = i.atype, !.aid = i.aid,
               !.season = pick_asset_season(game_runs[id].user_id, id),
               !.phase0 = StateRow(id).phase]

\* a user calls a function on the run of their own
InvokeOwn(p) ==
  /\ calls[p].pc = "idle"
  /\ \E id \in DOMAIN game_runs, i \in IsoCalls :
       LET c == CallOn(id, i)
       IN  IF ChecksOf(c) # "ok"
             THEN calls' = [calls EXCEPT ![p] = [c EXCEPT !.pc = "done", !.err = ChecksOf(c)]]
             ELSE calls' = [q \in CallIds |->
                              IF q = p THEN [c EXCEPT !.pc = "waiting", !.with = InFlight]
                              ELSE IF q \in InFlight
                                THEN [calls[q] EXCEPT !.with = @ \cup {p}]
                              ELSE calls[q]]
  /\ UNCHANGED <<teams, game_runs, game_state, game_picks, last, lock>>

\* two users have each started a run for the season
InitIso ==
  /\ teams = 1..IsoTeams
  /\ game_runs = (1 :> [user_id |-> "u1", season |-> Season, status |-> "active"])
                 @@ (2 :> [user_id |-> "u2", season |-> Season, status |-> "active"])
  /\ game_state = [id \in {1, 2} |-> [phase |-> "need_roll", current_team_id |-> Null,
                                       pending_slot |-> NullText]]
  /\ game_picks = EmptyBag
  /\ last = NoCall
  /\ calls = [p \in CallIds |-> Idle]
  /\ lock = [r \in RunIds |-> Free]

NextIso ==
  \/ \E p \in CallIds : InvokeOwn(p)
  \/ \E p \in CallIds : AcquireLock(p)
  \/ \E p \in CallIds : Finish(p)
  \/ \E p \in CallIds : Return(p)

SpecIso == InitIso /\ [][NextIso]_vars

\* ------------------------------------------------------------- claims
Runs == DOMAIN game_runs

PhaseOf(id) == game_state[id].phase

\* the arguments an authenticated owner can pass
AssetInputs == AssetTypeInputs \X AssetIdInputs

\* C1: for every run, status is complete exactly when the phase is complete
\* and exactly when the run has 8 picks; with fewer picks the run is active
\* and its phase is not complete, and a run never has more than 8 picks.
C1_CompleteIffEightPicks ==
  \A id \in Runs :
    /\ (game_runs[id].status = "complete") <=> (PhaseOf(id) = "complete")
    /\ (PhaseOf(id) = "complete") <=> (PickCount(game_picks, id) = 8)
    /\ PickCount(game_picks, id) < 8 =>
         game_runs[id].status = "active" /\ PhaseOf(id) # "complete"
    /\ PickCount(game_picks, id) <= 8

C1_Witness ==
  \E id \in Runs :
    /\ PickCount(game_picks, id) = 8
    /\ game_runs[id].status = "complete"
    /\ last.op = "pick_asset" /\ last.err = "ok"

\* C2: within a run no two picks share a slot and none share a team, so
\* the number of pick rows, of filled slots and of teams used agree; an
\* insert that repeats a slot or a team of the run fails and leaves the
\* table as it is.
C2_SlotsAndTeamsUnique ==
  \A id \in Runs :
    LET rows == PicksOfRun(id) IN
    /\ \A gp \in rows : game_picks[gp] = 1
    /\ \A gp1, gp2 \in rows :
         gp1 # gp2 => gp1.slot # gp2.slot /\ gp1.team_id # gp2.team_id
    /\ PickCount(game_picks, id) = Cardinality({gp.slot : gp \in rows})
    /\ PickCount(game_picks, id) = Cardinality({gp.team_id : gp \in rows})
    /\ \A row \in DirectRows :
         (\E gp \in rows : gp.slot = row.slot \/ gp.team_id = row.team_id) /\ row.run_id = id
           => /\ InsertPick(row).err # "ok"
              /\ InsertPick(row).picks = game_picks

C2_Witness ==
  /\ last.op = "insert_pick"
  /\ last.err = "UniqueViolation"
  /\ \E id \in Runs : PickCount(game_picks, id) >= 2

\* what the reference data offers for a team and a slot in a season
\* the slots served by the player branch (neither DST nor COACH)
PlayerSlots == ALL_SLOTS \ {"DST", "COACH"}

SlotPosition(slot) ==
  IF slot \in {"RB1", "RB2"} THEN "RB"
  ELSE IF slot \in {"WR1", "WR2"} THEN "WR"
  ELSE slot

ValidAssets(team, slot, season) ==
  IF slot = "DST" THEN {<<"dst", Null>>}
  ELSE IF slot = "COACH" THEN {<<"coach", c.id>> : c \in {k \in coaches : k.team_id = team}}
  ELSE {<<"player", r.id>> :
          r \in {q \in nflverse_roster_2025 :
                   q.team = AbbrOf(team) /\ q.season = season
                   /\ q.position = SlotPosition(slot)}}

\* C3: in each of the 8 cycles, whatever the slot chosen for the rolled
\* team, the reference data holds a valid asset and pick asset with a valid
\* asset succeeds, returning the phase to need_roll before the 8th pick and
\* sealing the run (status and phase complete) with the 8th.
C3_EveryCycleSucceeds ==
  \A id \in Runs :
    PhaseOf(id) = "need_asset" /\ game_state[id].pending_slot \in ALL_SLOTS =>
      LET v == game_state[id]
          offered == ValidAssets(v.current_team_id, v.pending_slot, game_runs[id].season)
      IN  /\ offered # {}
          /\ \A a \in offered :
               LET r == tr_pick_asset(game_runs[id].user_id, id, a[1], a[2])
               IN  /\ r.err = "ok"
                   /\ r.state[id].phase =
                        IF PickCount(game_picks, id) = 7 THEN "complete" ELSE "need_roll"
                   /\ r.runs[id].status =
                        IF PickCount(game_picks, id) = 7 THEN "complete" ELSE "active"

\* C4: once a run's phase is complete, roll team, choose slot, clear pending
\* slot and pick asset on it fail for every input, and the step leaves its
\* Run row, its RunState row (complete, no team, no slot) and its picks as
\* they are.
C4_CompleteIsTerminal ==
  [][\A id \in Runs :
       PhaseOf(id) = "complete" =>
         /\ \A uid \in Callers :
              /\ \A t \in RollChoices(id) : tr_roll_team(uid, id, t).err # "ok"
              /\ \A s \in SlotInputs : tr_choose_slot(uid, id, s).err # "ok"
              /\ tr_clear_pending_slot(uid, id).err # "ok"
              /\ \A a \in AssetInputs : tr_pick_asset(uid, id, a[1], a[2]).err # "ok"
         /\ game_runs'[id] = game_runs[id]
         /\ game_state'[id] = game_state[id]
         /\ game_state[id].current_team_id = Null
         /\ game_state[id].pending_slot = NullText
         /\ PicksOfRun(id)' = PicksOfRun(id)
         /\ PickCount(game_picks', id) = PickCount(game_picks, id)]_vars

C4_Witness ==
  \E id \in Runs :
    /\ PhaseOf(id) = "complete"
    /\ last.run = id
    /\ last.op \in {"roll_team", "choose_slot", "clear_pending_slot", "pick_asset"}
    /\ last.err \in {"InvalidPhase", "NoCurrentTeam"}

\* the spec files "no current team" under InvalidPhase (clear pending slot)
InvalidPhaseKind == {"InvalidPhase", "NoCurrentTeam"}

\* C5: for the owner's calls on a run (slot from the vocabulary), roll team
\* succeeds only in need_roll, choose slot only in need_slot, pick asset only
\* in need_asset, clear pending slot only in need_slot and need_asset; in
\* every other phase the call fails with InvalidPhase and leaves RunState
\* and picks unchanged.
C5_PhaseDecidesOperations ==
  \A id \in Runs :
    LET uid == game_runs[id].user_id
        ph == PhaseOf(id)
        Kept(r) == r.state = game_state /\ r.picks = game_picks
    IN
    /\ \A t \in RollChoices(id) :
         LET r == tr_roll_team(uid, id, t) IN
           /\ r.err = "ok" => ph = "need_roll"
           /\ ph # "need_roll" => r.err = "InvalidPhase" /\ Kept(r)
    /\ \A s \in ALL_SLOTS :
         LET r == tr_choose_slot(uid, id, s) IN
           /\ r.err = "ok" => ph = "need_slot"
           /\ ph # "need_slot" => r.err = "InvalidPhase" /\ Kept(r)
    /\ LET r == tr_clear_pending_slot(uid, id) IN
           /\ r.err = "ok" => ph \in {"need_slot", "need_asset"}
           /\ ph \notin {"need_slot", "need_asset"} =>
                r.err \in InvalidPhaseKind /\ Kept(r)
    /\ \A a \in AssetInputs :
         LET r == tr_pick_asset(uid, id, a[1], a[2]) IN
           /\ r.err = "ok" => ph = "need_asset"
           /\ ph # "need_asset" => r.err = "InvalidPhase" /\ Kept(r)

C5_Witness ==
  \E id \in Runs :
    /\ PhaseOf(id) = "need_asset"
    /\ game_state[id].pending_slot \in ALL_SLOTS
    /\ last = [op |-> "choose_slot", run |-> id, err |-> "InvalidPhase", ret |-> Null]

\* C6: need_roll has no team and no slot; need_slot has a team and no slot;
\* need_asset has a team and one of the 8 slots; complete has neither.
C6_PhaseDeterminesFields ==
  \A id \in DOMAIN game_state :
    LET v == game_state[id] IN
    /\ v.phase = "need_roll" => v.current_team_id = Null /\ v.pending_slot = NullText
    /\ v.phase = "need_slot" => v.current_team_id # Null /\ v.pending_slot = NullText
    /\ v.phase = "need_asset" => v.current_team_id # Null /\ v.pending_slot \in ALL_SLOTS
    /\ v.phase = "complete" => v.current_team_id = Null /\ v.pending_slot = NullText

\* C7: a successful roll team in need_roll returns a team with no pick in
\* the run and leaves RunState at (need_slot, that team, no slot), with the
\* run's picks and Run row unchanged.
C7_RollReturnsFreshTeam ==
  [][last'.op = "roll_team" /\ last'.err = "ok" =>
       LET id == last'.run IN
       /\ PhaseOf(id) = "need_roll"
       /\ last'.ret \in teams
       /\ ~TeamUsed(id, last'.ret)
       /\ game_state'[id] = [phase |-> "need_slot", current_team_id |-> last'.ret,
                             pending_slot |-> NullText]
       /\ game_picks' = game_picks
       /\ game_runs' = game_runs]_vars

C7_Witness ==
  \E id \in Runs :
    /\ last = [op |-> "roll_team", run |-> id, err |-> "ok",
               ret |-> game_state[id].current_team_id]
    /\ PhaseOf(id) = "need_slot"
    /\ PickCount(game_picks, id) >= 1

\* C8: a call that returns an error leaves game_runs, game_state and
\* game_picks as they were; picks change only together with the RunState
\* of a pick asset, and every Run has its RunState.
C8_AllOrNothing ==
  [][/\ last'.err # "ok" => UNCHANGED tables
     /\ game_picks' # game_picks =>
          /\ last'.op = "pick_asset"
          /\ game_state'[last'.run] # game_state[last'.run]
          /\ game_state'[last'.run].phase \in {"need_roll", "complete"}
     /\ last'.op = "pick_asset" /\ last'.err = "ok" => game_picks' # game_picks
     /\ DOMAIN game_runs' = DOMAIN game_state']_vars

C8_Witness ==
  /\ last.op = "pick_asset"
  /\ last.err = "AssetPositionMismatch"
  /\ \E id \in Runs : PhaseOf(id) = "need_asset" /\ PickCount(game_picks, id) >= 1

\* two calls of the same function on the same run, both ended, that were in
\* flight together and were both invoked while the run was in phase ph
RacedIn(p, q, op, ph) ==
  /\ p # q
  /\ calls[p].pc = "done" /\ calls[q].pc = "done"
  /\ calls[p].op = op /\ calls[q].op = op
  /\ calls[p].run = calls[q].run
  /\ q \in calls[p].with
  /\ calls[p].phase0 = ph /\ calls[q].phase0 = ph

\* C9: of two roll team calls racing on a run in need_roll (a team being
\* eligible), exactly one succeeds; the other read the row only after the
\* winner's commit and failed with InvalidPhase, and the run's current team
\* is the team returned to the winner.
C9_OneRollWins ==
  \A p, q \in CallIds :
    RacedIn(p, q, "roll_team", "need_roll") /\ EligibleTeams(calls[p].run) # {} =>
      \E w \in {p, q} :
        LET l == CHOOSE x \in {p, q} : x # w IN
        /\ calls[w].err = "ok"
        /\ calls[w].ret \in teams
        /\ calls[l].err = "InvalidPhase"
        /\ calls[l].v.phase = "need_slot"
        /\ calls[l].v.current_team_id = calls[w].ret
        /\ game_state[calls[p].run].current_team_id = calls[w].ret

C9_Witness ==
  \E p, q \in CallIds :
    /\ RacedIn(p, q, "roll_team", "need_roll")
    /\ EligibleTeams(calls[p].run) # {}
    /\ calls[p].err = "ok" /\ calls[q].err = "InvalidPhase"
    /\ PickCount(game_picks, calls[p].run) >= 1

\* C10: calls on one run hold the row lock one at a time; a call holding it
\* produces, for every team the roll can draw, the outcome and the tables
\* that its whole function run alone on the present tables produces, and
\* what a call read before the lock (ownership, season) still holds; of two
\* pick asset calls racing in need_asset at most one inserts a pick.
C10_SerializedByRowLock ==
  /\ \A p, q \in CallIds :
       calls[p].pc = "locked" /\ calls[q].pc = "locked" /\ calls[p].run = calls[q].run
         => p = q
  /\ \A p \in CallIds :
       calls[p].pc = "locked" =>
         /\ lock[calls[p].run] = p
         /\ calls[p].v = StateRow(calls[p].run)
         /\ \A v_team_id \in ChoicesOf(calls[p]) :
              LockedOf(calls[p], v_team_id) = AloneOf(calls[p], v_team_id)
  /\ \A p \in CallIds :
       calls[p].pc \in {"waiting", "locked"} =>
         /\ ChecksOf(calls[p]) = "ok"
         /\ calls[p].season = pick_asset_season(calls[p].uid, calls[p].run)
  /\ \A p, q \in CallIds :
       RacedIn(p, q, "pick_asset", "need_asset") =>
         ~(calls[p].err = "ok" /\ calls[q].err = "ok")

C10_Witness ==
  \E p, q \in CallIds :
    /\ RacedIn(p, q, "pick_asset", "need_asset")
    /\ calls[p].err = "ok" /\ calls[q].err = "InvalidPhase"
    /\ PickCount(game_picks, calls[p].run) = 1

\* C11: start run for a (user, season) without a Run adds exactly one
\* active Run and its RunState (need_roll, no team, no slot) and nothing
\* else; with a Run present, also when two start run calls race, it fails
\* with DuplicateRun and changes nothing; no two Runs share (user, season)
\* and every Run has exactly one RunState.
C11_OneRunPerUserSeason ==
  /\ \A a, b \in Runs :
       game_runs[a].user_id = game_runs[b].user_id /\ game_runs[a].season = game_runs[b].season
         => a = b
  /\ DOMAIN game_state = Runs
  /\ \A uid \in Users, p_season \in {Season, OtherSeason} :
       LET r == tr_create_run(uid, p_season)
           present == \E id \in Runs :
                         game_runs[id].user_id = uid /\ game_runs[id].season = p_season
       IN  IF present
             THEN /\ r.err = "DuplicateRun"
                  /\ r.runs = game_runs /\ r.state = game_state /\ r.picks = game_picks
             ELSE /\ r.err = "ok"
                  /\ DOMAIN r.runs = Runs \cup {r.ret} /\ r.ret \notin Runs
                  /\ DOMAIN r.state = DOMAIN r.runs
                  /\ r.runs[r.ret] = [user_id |-> uid, season |-> p_season, status |-> "active"]
                  /\ r.state[r.ret] = [phase |-> "need_roll", current_team_id |-> Null,
                                       pending_slot |-> NullText]
                  /\ \A id \in Runs : r.runs[id] = game_runs[id] /\ r.state[id] = game_state[id]
                  /\ r.picks = game_picks
  /\ \A p, q \in CallIds :
       RacedIn(p, q, "create_run", NullText) /\ calls[p].season = calls[q].season =>
         /\ ~(calls[p].err = "ok" /\ calls[q].err = "ok")
         /\ \A x \in {p, q} : calls[x].err \in {"ok", "DuplicateRun"}
         /\ Cardinality({id \in Runs : game_runs[id].user_id = calls[p].uid
                                       /\ game_runs[id].season = calls[p].season}) = 1

C11_Witness ==
  \E p, q \in CallIds :
    /\ RacedIn(p, q, "create_run", NullText)
    /\ calls[p].err = "ok" /\ calls[q].err = "DuplicateRun"
    /\ Runs = {calls[p].ret}

\* C12: a successful pick asset in need_asset adds exactly one pick row,
\* for the pending slot and the current team as they were and carrying the
\* supplied reference, so the pick count grows by 1; while the new count is
\* below 8 the RunState becomes (need_roll, no team, no slot) and the Run
\* row stays as it is.
C12_PickBindsSlotTeamAsset ==
  \A id \in Runs :
    PhaseOf(id) = "need_asset" =>
      \A a \in AssetInputs :
        LET v == game_state[id]
            r == tr_pick_asset(game_runs[id].user_id, id, a[1], a[2])
        IN  r.err = "ok" =>
              /\ \E row \in BagToSet(r.picks) :
                   /\ r.picks = game_picks (+) SetToBag({row})
                   /\ row.run_id = id
                   /\ row.slot = v.pending_slot
                   /\ row.team_id = v.current_team_id
                   /\ {row.player_id, row.coach_id} \ {Null} = {a[2]} \ {Null}
              /\ PickCount(r.picks, id) = PickCount(game_picks, id) + 1
              /\ PickCount(r.picks, id) < 8 =>
                   /\ r.state[id] = [phase |-> "need_roll", current_team_id |-> Null,
                                     pending_slot |-> NullText]
                   /\ r.runs = game_runs

C12_Witness ==
  \E id \in Runs :
    /\ last = [op |-> "pick_asset", run |-> id, err |-> "ok", ret |-> Null]
    /\ PhaseOf(id) = "need_roll"
    /\ PickCount(game_picks, id) = 1
    /\ \E gp \in PicksOfRun(id) : gp.slot = "QB" /\ gp.asset_type = "player"

\* C13: with pending slot COACH, the coach of the current team can be picked
\* (some reference id is accepted and a coach pick carrying that coach's id
\* is stored), and a coach pick with a reference id that is not accepted
\* fails with AssetTeamMismatch and leaves the tables as they were.
C13_CoachOfCurrentTeamOnly ==
  \A id \in Runs :
    (PhaseOf(id) = "need_asset" /\ game_state[id].pending_slot = "COACH") =>
      LET v == game_state[id]
          pick(b) == tr_pick_asset(game_runs[id].user_id, id, "coach", b)
      IN  /\ \E b \in AssetIdInputs \ {Null} :
               /\ pick(b).err = "ok"
               /\ pick(b).picks = game_picks (+) SetToBag(
                    {PickRow(id, "COACH", v.current_team_id, "coach", Null,
                             CoachIdOf(v.current_team_id))})
          /\ \A b \in AssetIdInputs \ {Null} :
               pick(b).err # "ok" =>
                 /\ pick(b).err = "AssetTeamMismatch"
                 /\ pick(b).runs = game_runs
                 /\ pick(b).state = game_state
                 /\ pick(b).picks = game_picks

\* C14: with a player slot pending, picking a player of the current team and
\* of the run's season whose position is not the slot's position (RB for RB1
\* and RB2, WR for WR1 and WR2, QB, TE) fails with AssetPositionMismatch; the
\* phase stays need_asset with the same team and slot, and no pick is added.
C14_WrongPositionRejected ==
  \A id \in Runs :
    (PhaseOf(id) = "need_asset" /\ game_state[id].pending_slot \in PlayerSlots) =>
      \A p \in nflverse_roster_2025 :
        ( /\ p.team = TeamAbbr(game_state[id].current_team_id)
          /\ p.season = game_runs[id].season
          /\ p.position # SlotPosition(game_state[id].pending_slot) ) =>
          LET r == tr_pick_asset(game_runs[id].user_id, id, "player", p.id)
          IN  /\ r.err = "AssetPositionMismatch"
              /\ r.runs = game_runs
              /\ r.state = game_state
              /\ r.picks = game_picks

C14_Witness ==
  \E id \in Runs :
    /\ last = [op |-> "pick_asset", run |-> id, err |-> "AssetPositionMismatch", ret |-> Null]
    /\ PhaseOf(id) = "need_asset"
    /\ game_state[id].pending_slot = "RB2"
    /\ game_picks # EmptyBag

\* C15: every player pick references a roster row of the pick's team, of the
\* run's season and of the position its slot requires; with a player slot
\* pending, a pick asset call naming a player of another team or of another
\* season fails with AssetTeamMismatch and leaves the tables as they were.
C15_PlayerOfTeamAndSeason ==
  /\ \A gp \in BagToSet(game_picks) :
       gp.asset_type = "player" =>
         \E p \in nflverse_roster_2025 :
           /\ p.id = gp.player_id
           /\ p.team = TeamAbbr(gp.team_id)
           /\ p.season = game_runs[gp.run_id].season
           /\ p.position = SlotPosition(gp.slot)
  /\ \A id \in Runs :
       (PhaseOf(id) = "need_asset" /\ game_state[id].pending_slot \in PlayerSlots) =>
         \A p \in nflverse_roster_2025 :
           ( \/ p.team # TeamAbbr(game_state[id].current_team_id)
             \/ p.season # game_runs[id].season ) =>
             LET r == tr_pick_asset(game_runs[id].user_id, id, "player", p.id)
             IN  /\ r.err = "AssetTeamMismatch"
                 /\ r.runs = game_runs
                 /\ r.state = game_state
                 /\ r.picks = game_picks

C15_Witness ==
  \E id \in Runs :
    /\ last = [op |-> "pick_asset", run |-> id, err |-> "AssetTeamMismatch", ret |-> Null]
    /\ PhaseOf(id) = "need_asset"
    /\ game_state[id].pending_slot \in PlayerSlots
    /\ \E gp \in PicksOfRun(id) : gp.asset_type = "player"

\* the shape of the inputs a pending slot asks for
ShapeRequired(slot, p_asset_type, p_asset_id) ==
  IF slot = "DST" THEN p_asset_type = "dst" /\ p_asset_id = Null
  ELSE IF slot = "COACH" THEN p_asset_type = "coach" /\ p_asset_id # Null
  ELSE p_asset_type = "player" /\ p_asset_id # Null

\* C16: pick asset succeeds only with inputs of the shape the pending slot
\* requires (DST: type dst and no id; COACH: type coach and an id; any other
\* slot: type player and an id); every other pair of asset type and id, a
\* null asset type included, fails and inserts no pick.
C16_ShapeRequiredBySlot ==
  \A id \in Runs :
    PhaseOf(id) = "need_asset" =>
      \A a \in AssetInputs :
        LET r == tr_pick_asset(game_runs[id].user_id, id, a[1], a[2])
        IN  ~ShapeRequired(game_state[id].pending_slot, a[1], a[2]) =>
              r.err # "ok" /\ r.picks = game_picks

\* a pick row whose type and references fit its slot
PickConsistent(gp) ==
  /\ gp.asset_type = "dst" <=> gp.slot = "DST"
  /\ gp.asset_type = "coach" <=> gp.slot = "COACH"
  /\ gp.asset_type = "player" <=> gp.slot \in PlayerSlots
  /\ gp.player_id # Null <=> gp.asset_type = "player"
  /\ gp.coach_id # Null <=> gp.asset_type = "coach"

\* C17: every pick row has asset type dst exactly when its slot is DST,
\* coach exactly when its slot is COACH and player for every other slot; its
\* player reference is set exactly when the type is player, its coach
\* reference exactly when the type is coach, and a dst pick carries neither.
\* Every pick asset call that succeeds leaves the table that way.
C17_PickShapeFitsSlot ==
  /\ \A gp \in BagToSet(game_picks) : PickConsistent(gp)
  /\ \A id \in Runs :
       PhaseOf(id) = "need_asset" =>
         \A a \in AssetInputs :
           \A gp \in BagToSet(tr_pick_asset(game_runs[id].user_id, id, a[1], a[2]).picks) :
             PickConsistent(gp)

C17_Witness ==
  \E id \in Runs :
    /\ last = [op |-> "pick_asset", run |-> id, err |-> "ok", ret |-> Null]
    /\ \E gp \in PicksOfRun(id) : gp.slot = "DST" /\ gp.asset_type = "dst"
    /\ \E gp \in PicksOfRun(id) : gp.slot = "TE" /\ gp.asset_type = "player"
    /\ \E gp \in PicksOfRun(id) : gp.slot = "COACH" /\ gp.asset_type = "coach"

\* C18: in phase need_slot (a team is set, no slot is pending), choose slot
\* with a slot that already has a pick in the run fails with
\* SlotAlreadyFilled and leaves the tables as they were; with a slot that
\* has no pick it succeeds, sets the pending slot to it and the phase to
\* need_asset, and keeps the current team.
C18_ChooseSlotFilledOrFree ==
  \A id \in Runs :
    PhaseOf(id) = "need_slot" =>
      /\ game_state[id].current_team_id # Null
      /\ game_state[id].pending_slot = NullText
      /\ \A s \in ALL_SLOTS :
           LET r == tr_choose_slot(game_runs[id].user_id, id, s)
           IN  /\ r.runs = game_runs
               /\ r.picks = game_picks
               /\ IF \E gp \in BagToSet(game_picks) : gp.run_id = id /\ gp.slot = s
                    THEN r.err = "SlotAlreadyFilled" /\ r.state = game_state
                    ELSE /\ r.err = "ok"
                         /\ r.state = [game_state EXCEPT ![id] =
                              [phase |-> "need_asset",
                               current_team_id |-> game_state[id].current_team_id,
                               pending_slot |-> s]]

C18_Witness ==
  \E id \in Runs :
    /\ last = [op |-> "choose_slot", run |-> id, err |-> "SlotAlreadyFilled", ret |-> Null]
    /\ PhaseOf(id) = "need_slot"
    /\ PickCount(game_picks, id) >= 1

\* C19: choose slot with a slot argument outside the 8 names, a null
\* argument included, fails with InvalidSlot in every phase and leaves the
\* tables as they were.
C19_UnknownSlotRejected ==
  \A id \in Runs :
    \A s \in SlotInputs \ ALL_SLOTS :
      LET r == tr_choose_slot(game_runs[id].user_id, id, s)
      IN  /\ r.err = "InvalidSlot"
          /\ r.runs = game_runs
          /\ r.state = game_state
          /\ r.picks = game_picks

\* C20: clear pending slot never changes the picks or the run rows; in
\* need_asset it sets need_slot with no pending slot and the same team; in
\* need_slot it succeeds and leaves the state row as it is; in need_roll and
\* complete it fails and changes nothing. Right after a successful clear,
\* choose slot succeeds with every slot that has no pick.
C20_ClearPendingSlot ==
  \A id \in Runs :
    LET v == game_state[id]
        r == tr_clear_pending_slot(game_runs[id].user_id, id)
    IN  /\ r.picks = game_picks
        /\ r.runs = game_runs
        /\ v.phase = "need_asset" =>
             /\ r.err = "ok"
             /\ r.state = [game_state EXCEPT ![id] =
                  [phase |-> "need_slot", current_team_id |-> v.current_team_id,
                   pending_slot |-> NullText]]
             /\ v.current_team_id # Null
        /\ v.phase = "need_slot" => r.err = "ok" /\ r.state = game_state
        /\ v.phase \in {"need_roll", "complete"} =>
             r.err \in InvalidPhaseKind /\ r.state = game_state
        /\ (last.op = "clear_pending_slot" /\ last.run = id /\ last.err = "ok") =>
             /\ v.phase = "need_slot"
             /\ \A s \in ALL_SLOTS :
                  ~(\E gp \in BagToSet(game_picks) : gp.run_id = id /\ gp.slot = s) =>
                    LET c == tr_choose_slot(game_runs[id].user_id, id, s)
                    IN  /\ c.err = "ok"
                        /\ c.state[id] = [phase |-> "need_asset",
                                          current_team_id |-> v.current_team_id,
                                          pending_slot |-> s]

C20_Witness ==
  \E id \in Runs :
    /\ last = [op |-> "clear_pending_slot", run |-> id, err |-> "ok", ret |-> Null]
    /\ PhaseOf(id) = "need_slot"
    /\ game_state[id].current_team_id # Null
    /\ PickCount(game_picks, id) >= 6

\* C21: in phase need_roll the teams roll team can return are exactly the
\* teams with no pick in the run: each of them is a possible result,
\* whatever its id and whatever was rolled before, and no other team is.
C21_RollOverEligibleSet ==
  \A id \in Runs :
    PhaseOf(id) = "need_roll" =>
      LET uid == game_runs[id].user_id
          fresh == {t \in teams :
                      \A gp \in BagToSet(game_picks) : ~(gp.run_id = id /\ gp.team_id = t)}
          drawn == {c \in RollChoices(id) : tr_roll_team(uid, id, c).err = "ok"}
      IN  {tr_roll_team(uid, id, c).ret : c \in drawn} = fresh

C21_Witness ==
  \E id \in Runs :
    /\ last = [op |-> "roll_team", run |-> id, err |-> "ok",
               ret |-> game_state[id].current_team_id]
    /\ PickCount(game_picks, id) >= 1
    /\ \E t \in teams : t < last.ret /\ ~TeamUsed(id, t)

\* every team of the reference data has a pick in run id
AllTeamsUsed(id) ==
  \A t \in teams : \E gp \in BagToSet(game_picks) : gp.run_id = id /\ gp.team_id = t

\* C22: in phase need_roll, roll team fails with NoTeamsRemaining exactly
\* when every team already has a pick in the run, and then the tables stay
\* as they were (phase need_roll); with at least 8 teams in the reference
\* data no run in need_roll has used them all and no call fails that way.
C22_NoTeamsOnlyWhenAllUsed ==
  /\ \A id \in Runs :
       PhaseOf(id) = "need_roll" =>
         /\ \A c \in RollChoices(id) :
              LET r == tr_roll_team(game_runs[id].user_id, id, c)
              IN  /\ r.err = "NoTeamsRemaining" <=> AllTeamsUsed(id)
                  /\ r.err = "NoTeamsRemaining" =>
                       r.state = game_state /\ r.runs = game_runs /\ r.picks = game_picks
                  /\ r.err \in {"ok", "NoTeamsRemaining"}
         /\ Cardinality(teams) >= PickTarget => ~AllTeamsUsed(id)
  /\ Cardinality(teams) >= PickTarget => last.err # "NoTeamsRemaining"

C22_Witness ==
  \E id \in Runs :
    /\ last = [op |-> "roll_team", run |-> id, err |-> "NoTeamsRemaining", ret |-> Null]
    /\ PhaseOf(id) = "need_roll"
    /\ AllTeamsUsed(id)
    /\ game_runs[id].status = "active"

\* r failed with err and changed no row
Refused(r, err) ==
  r.err = err /\ r.runs = game_runs /\ r.state = game_state /\ r.picks = game_picks

\* the calls of caller uid on run id that carry no slot argument
SlotlessCalls(uid, id) ==
  {tr_roll_team(uid, id, c) : c \in RollChoices(id)}
  \cup {tr_clear_pending_slot(uid, id)}
  \cup {tr_pick_asset(uid, id, a[1], a[2]) : a \in AssetInputs}

\* C23 as stated: without a caller identity every operation fails with
\* NotAuthenticated; on a run id that does not exist or belongs to another
\* user every operation fails with NotFound; no row is changed.
C23_RefusedBeforeAnyChange ==
  /\ \A id \in RunIds :
       /\ \A r \in SlotlessCalls(NullText, id) : Refused(r, "NotAuthenticated")
       /\ \A s \in SlotInputs : Refused(tr_choose_slot(NullText, id, s), "NotAuthenticated")
  /\ Refused(tr_create_run(NullText, Season), "NotAuthenticated")
  /\ \A uid \in Users, id \in RunIds :
       ~OwnsRun(uid, id) =>
         /\ \A r \in SlotlessCalls(uid, id) : Refused(r, "NotFound")
         /\ \A s \in SlotInputs : Refused(tr_choose_slot(uid, id, s), "NotFound")

\* C23 amended: as above, except that choose slot with a slot name outside
\* the 8 names fails with InvalidSlot, the name being tested before the run
\* is looked up; no row is changed either way.
C23_RefusedSlotNameFirst ==
  /\ \A id \in RunIds :
       /\ \A r \in SlotlessCalls(NullText, id) : Refused(r, "NotAuthenticated")
       /\ \A s \in SlotInputs : Refused(tr_choose_slot(NullText, id, s), "NotAuthenticated")
  /\ Refused(tr_create_run(NullText, Season), "NotAuthenticated")
  /\ \A uid \in Users, id \in RunIds :
       ~OwnsRun(uid, id) =>
         /\ \A r \in SlotlessCalls(uid, id) : Refused(r, "NotFound")
         /\ \A s \in SlotInputs :
              Refused(tr_choose_slot(uid, id, s),
                      IF s \in ALL_SLOTS \cup {NullText} THEN "NotFound" ELSE "InvalidSlot")

C23_Witness ==
  /\ last.op = "choose_slot"
  /\ last.err = "NotFound"
  /\ last.run \in Runs
  /\ PhaseOf(last.run) = "need_slot"
  /\ PickCount(game_picks, last.run) >= 1

\* what a call's outcome r means for run id: error, result and the run's rows
OutcomeOn(id, r) ==
  CHOOSE o \in {<<x.err, x.ret, x.runs[id], x.state[id],
                  {gp \in BagToSet(x.picks) : gp.run_id = id}, PickCount(x.picks, id)>> :
                  x \in {r}} : TRUE

\* the outcomes on run id of every call its owner can make next
OutcomesOn(id) ==
  LET uid == game_runs[id].user_id IN
  {<<"roll_team", c, OutcomeOn(id, tr_roll_team(uid, id, c))>> : c \in teams \cup {Null}}
  \cup {<<"choose_slot", sl, OutcomeOn(id, tr_choose_slot(uid, id, sl))>> : sl \in SlotInputs}
  \cup {<<"clear_pending_slot", Null, OutcomeOn(id, tr_clear_pending_slot(uid, id))>>}
  \cup {<<"pick_asset", a, OutcomeOn(id, tr_pick_asset(uid, id, a[1], a[2]))>> :
          a \in AssetsTried(<<Owner, 1>>)}

\* a team with a pick in run A and none in run B can be rolled in B
UsedElsewhereStaysEligible ==
  \A A \in Runs, B \in Runs, t \in teams :
    ( /\ A # B
      /\ PhaseOf(B) = "need_roll"
      /\ \E gp \in BagToSet(game_picks) : gp.run_id = A /\ gp.team_id = t
      /\ ~\E gp \in BagToSet(game_picks) : gp.run_id = B /\ gp.team_id = t ) =>
      /\ t \in RollChoices(B)
      /\ tr_roll_team(game_runs[B].user_id, B, t).err = "ok"

\* a waiting call can take the row lock unless a call on the same run has it
WaitsOnlyForOwnRun ==
  \A p \in CallIds :
    ( /\ calls[p].pc = "waiting"
      /\ \A q \in CallIds : calls[q].pc = "locked" => calls[q].run # calls[p].run ) =>
      ENABLED AcquireLock(p)

\* C24: a call on run A leaves the Run, RunState and Pick rows of every
\* other run B as they were and with them the outcome of every call that can
\* be made on B next; a team with a pick in A and none in B can be rolled in
\* B; a call waits for the row lock only while a call on the same run holds
\* it.
C24_RunsIsolated ==
  [][/\ \A p \in CallIds :
          (calls[p].pc = "locked" /\ calls'[p].pc = "done") =>
            \A B \in Runs \ {calls[p].run} :
              /\ game_runs'[B] = game_runs[B]
              /\ game_state'[B] = game_state[B]
              /\ PicksOfRun(B)' = PicksOfRun(B)
              /\ PickCount(game_picks, B)' = PickCount(game_picks, B)
              /\ <<game_runs, game_state, game_picks>>' # <<game_runs, game_state, game_picks>>
                   => OutcomesOn(B)' = OutcomesOn(B)
     /\ UsedElsewhereStaysEligible /\ UsedElsewhereStaysEligible'
     /\ WaitsOnlyForOwnRun /\ WaitsOnlyForOwnRun']_vars

C24_Witness ==
  \E p \in CallIds, q \in CallIds, gp \in BagToSet(game_picks) :
    /\ calls[p].pc = "locked" /\ calls[q].pc = "locked"
    /\ calls[p].run # calls[q].run
    /\ calls[q].op = "pick_asset"
    /\ gp.run_id = calls[p].run
    /\ game_state[calls[q].run].current_team_id = gp.team_id

\* the five engine operations
EngineOps == {"create_run", "roll_team", "choose_slot", "clear_pending_slot", "pick_asset"}

\* C25: the Run, RunState and Pick rows change only through the engine
\* operations: whatever an authenticated run owner does with the access the
\* schema grants, a step that changes a row is a step of start run, roll
\* team, choose slot, clear pending slot or pick asset.
C25_OnlyEngineWrites ==
  [][<<game_runs, game_state, game_picks>>' # <<game_runs, game_state, game_picks>>
       => last'.op \in EngineOps]_vars

\* C26: whenever a run's phase is need_slot or need_asset its current team
\* has no pick in the run, and whenever the phase is need_asset its pending
\* slot has no pick in the run; no pick asset call, run alone or raced,
\* fails with SlotAlreadyFilled or TeamAlreadyUsed.
C26_PreInsertChecksNeverFire ==
  /\ \A id \in Runs :
       LET v == game_state[id] IN
       /\ v.phase \in {"need_slot", "need_asset"} =>
            ~\E gp \in BagToSet(game_picks) : gp.run_id = id /\ gp.team_id = v.current_team_id
       /\ v.phase = "need_asset" =>
            /\ ~\E gp \in BagToSet(game_picks) : gp.run_id = id /\ gp.slot = v.pending_slot
            /\ \A i \in ConcCalls :
                 i.op = "pick_asset" =>
                   tr_pick_asset(game_runs[id].user_id, id, i.atype, i.aid).err
                     \notin {"SlotAlreadyFilled", "TeamAlreadyUsed"}
  /\ \A p \in CallIds :
       (calls[p].pc = "done" /\ calls[p].op = "pick_asset") =>
         calls[p].err \notin {"SlotAlreadyFilled", "TeamAlreadyUsed"}

C26_Witness ==
  \E p \in CallIds, q \in CallIds :
    /\ RacedIn(p, q, "pick_asset", "need_asset")
    /\ calls[p].err = "ok"
    /\ calls[q].err = "InvalidPhase"
    /\ PickCount(game_picks, calls[p].run) = 2

\* C27: a run's current team, once set, changes only by a successful pick
\* asset on that run, which adds a pick for that team and leaves no current
\* team; roll team succeeds only while the run has no current team and
\* returns a team that no pick of the run carries. So one pick of the rolled
\* team lies between two successful rolls and no team is rolled twice.
C27_TeamKeptUntilPicked ==
  [][\A id \in Runs :
       /\ ( /\ game_state[id].current_team_id # Null
            /\ game_state'[id].current_team_id # game_state[id].current_team_id ) =>
            /\ last' = [op |-> "pick_asset", run |-> id, err |-> "ok", ret |-> Null]
            /\ game_state'[id].current_team_id = Null
            /\ \E gp \in BagToSet(game_picks') :
                 /\ gp.run_id = id
                 /\ gp.team_id = game_state[id].current_team_id
                 /\ game_picks' = game_picks (+) SetToBag({gp})
       /\ (last'.op = "roll_team" /\ last'.run = id /\ last'.err = "ok") =>
            /\ game_state[id].current_team_id = Null
            /\ game_state'[id].current_team_id = last'.ret
            /\ \A gp \in BagToSet(game_picks') : gp.run_id = id => gp.team_id # last'.ret
       /\ (last'.op = "pick_asset" /\ last'.run = id /\ last'.err = "ok") =>
            game_state[id].current_team_id # Null]_vars

C27_Witness ==
  \E id \in Runs :
    /\ last = [op |-> "clear_pending_slot", run |-> id, err |-> "ok", ret |-> Null]
    /\ game_state[id].current_team_id # Null
    /\ PickCount(game_picks, id) = 7
    /\ \A gp \in PicksOfRun(id) : gp.team_id # game_state[id].current_team_id

\* some input makes pick asset succeed for team t on slot sl of run id
Fillable(id, t, sl) ==
  \E a \in AssetInputs :
    pick_asset_locked(id, a[1], a[2],
                      [found |-> TRUE, phase |-> "need_asset", current_team_id |-> t,
                       pending_slot |-> sl],
                      game_runs[id].season).err = "ok"

\* the slots of run id without a pick
FreeSlots(id) ==
  {sl \in ALL_SLOTS : ~\E gp \in BagToSet(game_picks) : gp.run_id = id /\ gp.slot = sl}

\* C28: with at least 8 teams, each with a coach and a player of every
\* position, an active run is never at a dead end. The current team stays
\* until it is picked, so completion can be reached only if the current team
\* can fill one of the free slots and, when no team is current, some team
\* without a pick can.
C28_NoDeadEnd ==
  Cardinality(teams) >= PickTarget =>
    \A id \in Runs :
      game_runs[id].status = "active" =>
        IF game_state[id].current_team_id # Null
          THEN \E sl \in FreeSlots(id) : Fillable(id, game_state[id].current_team_id, sl)
          ELSE \E t \in teams :
                 /\ ~\E gp \in BagToSet(game_picks) : gp.run_id = id /\ gp.team_id = t
                 /\ \E sl \in FreeSlots(id) : Fillable(id, t, sl)

\* availableAssets of the page for run id: empty unless the state row has a
\* pending slot and a current team
availableAssets(id) ==
  IF game_state[id].pending_slot = NullText \/ game_state[id].current_team_id = Null
    THEN {}
    ELSE ValidAssets(game_state[id].current_team_id, game_state[id].pending_slot,
                     game_runs[id].season)

\* C29: in every state with phase need_asset the assets the page lists for
\* the pending slot are exactly the (asset type, reference id) inputs that
\* pick asset accepts: each listed asset is accepted and each accepted input
\* is listed.
C29_ListedIffAccepted ==
  \A id \in Runs :
    PhaseOf(id) = "need_asset" =>
      availableAssets(id) =
        {a \in AssetInputs \cup availableAssets(id) :
           tr_pick_asset(game_runs[id].user_id, id, a[1], a[2]).err = "ok"}

\* ------------------------------------------------------- the action layer
\* the remote procedures the engine defines and grants
DefinedProcedures ==
  {"tr_create_run", "tr_roll_team", "tr_choose_slot", "tr_clear_pending_slot",
   "tr_pick_asset"}

\* supabase.rpc(name, ...): the engine's outcome r when the procedure exists,
\* an error from the API when it does not
rpc(name, r) == IF name \in DefinedProcedures THEN r ELSE Raise("ProcedureNotFound")

\* the procedure pickAsset invokes for an asset type
PickProcedure(assetType) ==
  IF assetType = "dst" THEN "tr_pick_dst"
  ELSE IF assetType = "coach" THEN "tr_pick_coach"
  ELSE "tr_pick_player"

\* the procedures createRun, rollTeam, chooseSlot and clearPendingSlot invoke
InvokedProcedures ==
  {"tr_create_run", "tr_roll_team", "tr_choose_slot", "tr_clear_pending_slot"}

\* server action pickAsset(runId, assetType, assetId)
pickAsset(uid, runId, assetType, assetId) ==
  IF uid = NullText THEN Raise("NotLoggedIn")
  ELSE IF assetType = "dst"
    THEN rpc(PickProcedure(assetType), tr_pick_asset(uid, runId, "dst", Null))
  ELSE IF assetId = Null THEN Raise("NothingChosen")
  ELSE rpc(PickProcedure(assetType), tr_pick_asset(uid, runId, assetType, assetId))

\* C30: every procedure the server actions invoke is one the engine
\* defines; pickAsset with an asset the page lists, in phase need_asset,
\* inserts the pick and returns ok; pickAsset returns ok only when the pick
\* was committed.
C30_ActionsReachEngine ==
  /\ InvokedProcedures \subseteq DefinedProcedures
  /\ \A id \in Runs :
       PhaseOf(id) = "need_asset" =>
         /\ \A a \in availableAssets(id) :
              LET r == pickAsset(game_runs[id].user_id, id, a[1], a[2])
              IN  /\ PickProcedure(a[1]) \in DefinedProcedures
                  /\ r.err = "ok"
                  /\ PickCount(r.picks, id) = PickCount(game_picks, id) + 1
         /\ \A a \in AssetsTried(<<Owner, 1>>) :
              LET r == pickAsset(game_runs[id].user_id, id, a[1], a[2])
              IN  r.err = "ok" => PickCount(r.picks, id) = PickCount(game_picks, id) + 1

====
